---- MODULE Spec2Model ----
(***************************************************************************)
(* Model of sensor-simulation/simulation.py: the synthetic reading         *)
(* generator get_data, send_data, and the two dispatch loops of main       *)
(* (test mode and live mode), with the asynchronous KeyboardInterrupt and  *)
(* the exceptions the IoT hub client may raise.                            *)
(*                                                                         *)
(* Numbers: a raw random draw is an integer number of hundredths, a        *)
(* rounded field (round(x, 1)) an integer number of tenths.                *)
(***************************************************************************)
EXTENDS Integers, Sequences, FiniteSets, TLC

VARIABLES
    test_mode,  \* args.test, the argument of main
    env,        \* process environment: variable name -> state of its value
    pc,         \* position of the main thread
    idx,        \* position of the running for loop / comprehension (1-based)
    clients,    \* handles created so far by the comprehension of line 54
    pending,    \* exception in flight while the finally block runs
    trace,      \* history: every externally visible call, in order
    status,     \* exit status of the process, -1 while it runs
    cycle,      \* number of completed sleeps
    now,        \* UTC wall clock, in seconds
    draws,      \* get_data alone: the four raw outputs of random.uniform
    reading     \* get_data alone: the value it returned

vars == <<test_mode, env, pc, idx, clients, pending, trace, status, cycle,
          now, draws, reading>>

----------------------------------------------------------------------------
(* Bounds of the model *)

\* the sleep of a cycle completes at most this many times
MaxCycles == 2
\* raw draws are taken within this many hundredths of each end of a range
EdgeWidth == 5
\* largest clock value get_data alone is called at
MaxClock == 1

----------------------------------------------------------------------------
(* Configuration: lines 11-20 *)

\* location_connection_strings, in insertion (= iteration) order
Registry ==
    << [name |-> "Dow's Lake",   env |-> "CONNECTION_STRING1"],
       [name |-> "NAC",          env |-> "CONNECTION_STRING2"],
       [name |-> "Fifth Avenue", env |-> "CONNECTION_STRING3"] >>

NumSites == Len(Registry)

EnvVars == {Registry[i].env : i \in 1..NumSites}

\* what os.getenv can return for a connection string: None, "", a string
\* that is no connection string, a well-formed connection string
CredStates == {"missing", "empty", "malformed", "valid"}

\* time.sleep(10)
SleepSeconds == 10

----------------------------------------------------------------------------
(* get_data: lines 22-30 *)

\* a wrong upper end of the first range
SurfaceTemperatureRangeAboveZero == <<-20, 1>>

SurfaceTemperatureRange == <<-20, 0>>
ExternalTemperatureRange == <<-25, 0>>
IceThicknessRange == <<10, 50>>
SnowAccumulationRange == <<0, 15>>

\* random.uniform(a, b) returns a + (b - a) * random(), a value of [a, b];
\* the raw values (hundredths) the model draws: both ends of the range, the
\* values next to them and the midpoint
UniformDraws(range) ==
    {range[1] * 100 + k : k \in 0..EdgeWidth}
        \cup {range[2] * 100 - k : k \in 0..EdgeWidth}
        \cup {(range[1] + range[2]) * 50}

\* round(x, 1): x in hundredths to tenths, ties to the even tenth
round1(x) ==
    LET q == x \div 10
        r == x % 10
    IN  IF r < 5 THEN q
        ELSE IF r > 5 THEN q + 1
        ELSE IF q % 2 = 0 THEN q ELSE q + 1

\* the dict get_data returns, from the four uniform draws and the clock
get_data(d, t) ==
    [ surfaceTemperature  |-> round1(d[1]),
      externalTemperature |-> round1(d[2]),
      iceThickness        |-> round1(d[3]),
      snowAccumulation    |-> round1(d[4]),
      timestamp           |-> t ]

AllDraws ==
    UniformDraws(SurfaceTemperatureRange)
        \X UniformDraws(ExternalTemperatureRange)
        \X UniformDraws(IceThicknessRange)
        \X UniformDraws(SnowAccumulationRange)

\* the draws the dispatch loops take: every field at its low end, or at its
\* high end
EndDraws ==
    { << SurfaceTemperatureRange[e] * 100, ExternalTemperatureRange[e] * 100,
         IceThicknessRange[e] * 100, SnowAccumulationRange[e] * 100 >>
      : e \in {1, 2} }

NoReading == [timestamp |-> -1]

----------------------------------------------------------------------------
(* Events of the history *)

Event(e, s, c) == [ev |-> e, site |-> s, client |-> c]

\* the location of the first site attached to every reading
WithFirstLocation(data, location) == [location |-> "Dow's Lake"] @@ data

\* data["location"] = location (lines 35 and 47)
WithLocation(data, location) == [location |-> location] @@ data

\* a client is created whatever the connection string
CreateNeverRaises(cred) == FALSE

\* IoTHubDeviceClient.create_from_connection_string(conn_str) raises
\* (TypeError for None, ValueError for a string that does not parse) unless
\* conn_str is a well-formed connection string
CreateRaises(cred) == cred # "valid"

\* test mode publishes the reading
TestEmitPublishes(data) == [ev |-> "publish", site |-> data.location, client |-> "-"]

\* line 48: test mode prints the reading
TestEmit(data) == Event("print", data.location, "-")

\* lines 36-37: client.send_message(Message(str(data)))
Publish(client, data) == Event("publish", data.location, client)

\* the sleep taken after every site, the loop starting over
SleepAfterEverySite(i, loopPc, sleepPc) == [pc |-> sleepPc, idx |-> 1]

\* the for loops of lines 45 and 60: the next site, or the sleep after the
\* last one
AfterDispatch(i, loopPc, sleepPc) ==
    IF i < NumSites THEN [pc |-> loopPc, idx |-> i + 1]
    ELSE [pc |-> sleepPc, idx |-> 1]

----------------------------------------------------------------------------
(* Initial state: the module is loaded, main is about to be called *)

Init ==
    /\ test_mode \in BOOLEAN
    /\ env \in [EnvVars -> CredStates]
    /\ pc = "main"
    /\ idx = 1
    /\ clients = <<>>
    /\ pending = "none"
    /\ trace = <<>>
    /\ status = -1
    /\ cycle = 0
    /\ now = 0
    /\ draws = <<0, 0, 0, 0>>
    /\ reading = NoReading

GenVarsUnchanged == UNCHANGED <<draws, reading>>

\* line 41: if test_mode
Main ==
    /\ pc = "main"
    /\ pc' = IF test_mode THEN "t_banner" ELSE "create"
    /\ UNCHANGED <<test_mode, env, idx, clients, pending, trace, status,
                   cycle, now>>
    /\ GenVarsUnchanged

----------------------------------------------------------------------------
(* Test mode: lines 41-51 *)

\* line 42, before the try block
TestBanner ==
    /\ pc = "t_banner"
    /\ trace' = Append(trace, Event("started", "-", "-"))
    /\ pc' = "t_print"
    /\ idx' = 1
    /\ UNCHANGED <<test_mode, env, clients, pending, status, cycle, now>>
    /\ GenVarsUnchanged

\* lines 45-48: one iteration of the for loop
TestPrint ==
    /\ pc = "t_print"
    /\ \E d \in EndDraws :
         LET data == WithLocation(get_data(d, now), Registry[idx].name)
             next == AfterDispatch(idx, "t_print", "t_sleep")
         IN  /\ trace' = Append(trace, TestEmit(data))
             /\ pc' = next.pc
             /\ idx' = next.idx
    /\ UNCHANGED <<test_mode, env, clients, pending, status, cycle, now>>
    /\ GenVarsUnchanged

\* line 49: time.sleep(10) returns
TestSleep ==
    /\ pc = "t_sleep"
    /\ cycle < MaxCycles
    /\ trace' = Append(trace, Event("sleep", "-", "-"))
    /\ cycle' = cycle + 1
    /\ now' = now + SleepSeconds
    /\ pc' = "t_print"
    /\ idx' = 1
    /\ UNCHANGED <<test_mode, env, clients, pending, status>>
    /\ GenVarsUnchanged

\* lines 50-51: except KeyboardInterrupt, then main returns
TestStopped ==
    /\ pc = "t_except"
    /\ trace' = Append(trace, Event("stopped", "-", "-"))
    /\ pc' = "exit"
    /\ status' = 0
    /\ UNCHANGED <<test_mode, env, idx, clients, pending, cycle, now>>
    /\ GenVarsUnchanged

----------------------------------------------------------------------------
(* Live mode: lines 52-67 *)

\* lines 54-55: one item of the dict comprehension. An exception leaves main
\* (no try block is open yet) and the interpreter exits with status 1.
CreateClient ==
    /\ pc = "create"
    /\ LET site == Registry[idx]
       IN  IF CreateRaises(env[site.env])
           THEN /\ trace' = Append(trace, Event("create_error", site.name, "-"))
                /\ pc' = "exit"
                /\ status' = 1
                /\ UNCHANGED <<idx, clients>>
           ELSE /\ trace' = Append(trace, Event("create", site.name, site.env))
                /\ clients' = Append(clients, site.env)
                /\ IF idx < NumSites
                   THEN /\ idx' = idx + 1
                        /\ pc' = "create"
                   ELSE /\ idx' = 1
                        /\ pc' = "announce"
                /\ UNCHANGED status
    /\ UNCHANGED <<test_mode, env, pending, cycle, now>>
    /\ GenVarsUnchanged

\* line 57, before the try block
Announce ==
    /\ pc = "announce"
    /\ trace' = Append(trace, Event("started", "-", "-"))
    /\ pc' = "send"
    /\ idx' = 1
    /\ UNCHANGED <<test_mode, env, clients, pending, status, cycle, now>>
    /\ GenVarsUnchanged

\* lines 60-61 and 34-37: send_data up to client.send_message, which returns
SendOk ==
    /\ pc = "send"
    /\ \E d \in EndDraws :
         LET data == WithLocation(get_data(d, now), Registry[idx].name)
         IN  trace' = Append(trace, Publish(clients[idx], data))
    /\ pc' = "sent"
    /\ UNCHANGED <<test_mode, env, idx, clients, pending, status, cycle, now>>
    /\ GenVarsUnchanged

\* lines 60-61 and 34-37: client.send_message raises. No except clause
\* matches (line 63 names KeyboardInterrupt only): the finally block runs
\* with the exception in flight.
SendRaises ==
    /\ pc = "send"
    /\ \E d \in EndDraws :
         LET data == WithLocation(get_data(d, now), Registry[idx].name)
         IN  trace' = Append(Append(trace, Publish(clients[idx], data)),
                             Event("publish_error", data.location, clients[idx]))
    /\ pending' = "error"
    /\ pc' = "finally"
    /\ idx' = 1
    /\ UNCHANGED <<test_mode, env, clients, status, cycle, now>>
    /\ GenVarsUnchanged

\* line 38, then the for loop of line 60 advances
Sent ==
    /\ pc = "sent"
    /\ LET next == AfterDispatch(idx, "send", "sleep")
       IN  /\ trace' = Append(trace, Event("sent", Registry[idx].name, clients[idx]))
           /\ pc' = next.pc
           /\ idx' = next.idx
    /\ UNCHANGED <<test_mode, env, clients, pending, status, cycle, now>>
    /\ GenVarsUnchanged

\* line 62: time.sleep(10) returns
Sleep ==
    /\ pc = "sleep"
    /\ cycle < MaxCycles
    /\ trace' = Append(trace, Event("sleep", "-", "-"))
    /\ cycle' = cycle + 1
    /\ now' = now + SleepSeconds
    /\ pc' = "send"
    /\ idx' = 1
    /\ UNCHANGED <<test_mode, env, clients, pending, status>>
    /\ GenVarsUnchanged

\* the except clause without its print
StoppedWithoutNotice ==
    /\ pc = "except"
    /\ pc' = "finally"
    /\ idx' = 1
    /\ UNCHANGED <<test_mode, env, clients, pending, trace, status, cycle, now>>
    /\ GenVarsUnchanged

\* lines 63-64: except KeyboardInterrupt
Stopped ==
    /\ pc = "except"
    /\ trace' = Append(trace, Event("stopped", "-", "-"))
    /\ pc' = "finally"
    /\ idx' = 1
    /\ UNCHANGED <<test_mode, env, clients, pending, status, cycle, now>>
    /\ GenVarsUnchanged

\* the status the interpreter exits with once the finally block is done:
\* 0 when main returns, 1 for an uncaught exception, 130 for an uncaught
\* KeyboardInterrupt
ExitStatus(exc) ==
    IF exc = "none" THEN 0 ELSE IF exc = "error" THEN 1 ELSE 130

\* lines 65-67: one iteration of the disconnect loop; after the last one the
\* exception in flight, if any, leaves main
Disconnect ==
    /\ pc = "finally"
    /\ trace' = Append(trace, Event("disconnect", Registry[idx].name, clients[idx]))
    /\ IF idx < NumSites
       THEN /\ idx' = idx + 1
            /\ UNCHANGED <<pc, status>>
       ELSE /\ pc' = "exit"
            /\ status' = ExitStatus(pending)
            /\ UNCHANGED idx
    /\ UNCHANGED <<test_mode, env, clients, pending, cycle, now>>
    /\ GenVarsUnchanged

----------------------------------------------------------------------------
(* SIGINT: Python raises KeyboardInterrupt in the main thread at whatever  *)
(* statement is running.                                                   *)

\* positions inside the try blocks of lines 43-49 and 58-62
TryPcs == {"t_print", "t_sleep", "send", "sent", "sleep"}

\* inside a try block: control moves to the except clause
InterruptInTry ==
    /\ pc \in TryPcs
    /\ trace' = Append(trace, Event("interrupt", "-", "-"))
    /\ pc' = IF test_mode THEN "t_except" ELSE "except"
    /\ UNCHANGED <<test_mode, env, idx, clients, pending, status, cycle, now>>
    /\ GenVarsUnchanged

\* inside the except clause of line 63-64: the handler is abandoned and the
\* finally block runs with the KeyboardInterrupt in flight
InterruptInHandler ==
    /\ pc = "except"
    /\ trace' = Append(trace, Event("interrupt", "-", "-"))
    /\ pending' = "interrupt"
    /\ pc' = "finally"
    /\ idx' = 1
    /\ UNCHANGED <<test_mode, env, clients, status, cycle, now>>
    /\ GenVarsUnchanged

\* anywhere no try block protects (lines 41-42, 50-51, 54-57, 65-67): the
\* KeyboardInterrupt leaves main and the interpreter exits
InterruptUncaught ==
    /\ pc \in {"main", "t_banner", "t_except", "create", "announce", "finally"}
    /\ trace' = Append(trace, Event("interrupt", "-", "-"))
    /\ pc' = "exit"
    /\ status' = ExitStatus("interrupt")
    /\ UNCHANGED <<test_mode, env, idx, clients, pending, cycle, now>>
    /\ GenVarsUnchanged

----------------------------------------------------------------------------

Next ==
    \/ Main
    \/ TestBanner
    \/ TestPrint
    \/ TestSleep
    \/ TestStopped
    \/ CreateClient
    \/ Announce
    \/ SendOk
    \/ SendRaises
    \/ Sent
    \/ Sleep
    \/ Stopped
    \/ Disconnect
    \/ InterruptInTry
    \/ InterruptInHandler
    \/ InterruptUncaught

Spec == Init /\ [][Next]_vars

----------------------------------------------------------------------------
(* The generator alone: the raw draws and the clock are the inputs *)

InitGen ==
    /\ draws \in AllDraws
    /\ now \in 0..MaxClock
    /\ reading = NoReading
    /\ pc = "get_data"
    /\ test_mode = TRUE
    /\ env = [v \in EnvVars |-> "valid"]
    /\ idx = 1
    /\ clients = <<>>
    /\ pending = "none"
    /\ trace = <<>>
    /\ status = -1
    /\ cycle = 0

\* lines 22-30: one call of get_data
GetData ==
    /\ pc = "get_data"
    /\ reading' = get_data(draws, now)
    /\ pc' = "returned"
    /\ UNCHANGED <<test_mode, env, idx, clients, pending, trace, status,
                   cycle, now, draws>>

NextGen == GetData

SpecGen == InitGen /\ [][NextGen]_vars

----------------------------------------------------------------------------
(* Reading the history *)

\* number of events of kind e among the first n events
EvCount(e, n) == Cardinality({p \in 1..n : trace[p].ev = e})

IsPublish(x) == x.ev = "publish"
IsPrint(x) == x.ev = "print"
IsDispatch(x) == x.ev \in {"publish", "print"}

Pubs == SelectSeq(trace, IsPublish)
Prints == SelectSeq(trace, IsPrint)

\* the site whose turn the j-th dispatch of a run is
SiteOfTurn(j) == Registry[((j - 1) % NumSites) + 1]

Interrupts == {p \in 1..Len(trace) : trace[p].ev = "interrupt"}

\* the interrupt at position p arrived while the loop was running: the loop
\* had been announced, and nothing had ended it before
LandedInLoop(p) ==
    /\ trace[p].ev = "interrupt"
    /\ \E q \in 1..(p - 1) : trace[q].ev = "started"
    /\ \A q \in 1..(p - 1) : trace[q].ev \notin {"interrupt", "publish_error"}

DisconnectCount(c) ==
    Cardinality({p \in 1..Len(trace) :
                    trace[p].ev = "disconnect" /\ trace[p].client = c})

\* the loop's state: RUNNING inside the try block, STOPPING once the loop
\* was announced and then left, NOT_ENTERED before
LoopState ==
    IF pc \in TryPcs THEN "RUNNING"
    ELSE IF pc \in {"except", "t_except", "finally", "exit"}
              /\ \E q \in 1..Len(trace) : trace[q].ev = "started"
         THEN "STOPPING"
    ELSE "NOT_ENTERED"

----------------------------------------------------------------------------
(* Claims *)

\* C1: in live mode a publish that raises does not end the loop: as long as
\* no interrupt arrived, the loop is still dispatching or sleeping after a
\* delivery error.
C1_PublishFailureKeepsLoopRunning ==
    (/\ ~test_mode
     /\ \E p \in 1..Len(trace) : trace[p].ev = "publish_error"
     /\ Interrupts = {})
        => pc \in {"send", "sent", "sleep"}

\* C2: in live mode the publishes of a run go round the registry in its
\* order, each on the client created from that site's connection string and
\* with that site's name as location; every sleep comes after exactly one
\* publish per site for each cycle so far.
C2_OncePerSitePerCycle ==
    ~test_mode =>
        /\ \A j \in 1..Len(Pubs) :
              /\ Pubs[j].site = SiteOfTurn(j).name
              /\ Pubs[j].client = SiteOfTurn(j).env
        /\ \A p \in 1..Len(trace) :
              trace[p].ev = "sleep" =>
                  EvCount("publish", p) = NumSites * EvCount("sleep", p)
        /\ pc = "sleep" => Len(Pubs) = NumSites * (cycle + 1)

\* C2 witness: two cycles completed in live mode
C2_Witness ==
    /\ ~test_mode
    /\ pc = "sleep"
    /\ cycle = 1
    /\ Len(Pubs) = 2 * NumSites

\* C3: in live mode, once every client is created, an interrupt leads to an
\* exit with status 0 after exactly one disconnect on every site's client.
C3_InterruptDisconnectsAllExitsZero ==
    (/\ ~test_mode
     /\ pc = "exit"
     /\ \E p \in Interrupts : EvCount("create", p) = NumSites)
        => /\ status = 0
           /\ \A i \in 1..NumSites : DisconnectCount(Registry[i].env) = 1

\* C4: in live mode with a credential that is missing, empty or malformed,
\* the loop is never entered, nothing is published, and the exit status is
\* not 0.
C4_BadCredentialNeverStartsLoop ==
    (/\ ~test_mode
     /\ \E i \in 1..NumSites : env[Registry[i].env] # "valid")
        => /\ pc \notin TryPcs
           /\ \A p \in 1..Len(trace) : trace[p].ev \notin {"started", "publish"}
           /\ pc = "exit" => status # 0

\* C4 witness: the second site's credential is missing, the first client
\* was created, and the process has exited on the failed creation
C4_Witness ==
    /\ ~test_mode
    /\ pc = "exit"
    /\ env[Registry[1].env] = "valid"
    /\ env[Registry[2].env] = "missing"
    /\ \E p \in 1..Len(trace) : trace[p].ev = "create_error"
    /\ status = 1

\* C5: at exit every client that was created has been disconnected.
C5_AcquiredClientsReleasedAtExit ==
    pc = "exit" =>
        \A i \in 1..Len(clients) : DisconnectCount(clients[i]) >= 1

\* C6: in test mode no client is created, nothing is published and nothing
\* disconnected; the printed readings go round the registry in its order
\* with the site's name as location, and every sleep comes after exactly one
\* printed reading per site for each cycle so far.
C6_DryRunOnlyPrints ==
    test_mode =>
        /\ clients = <<>>
        /\ \A p \in 1..Len(trace) :
              trace[p].ev \notin {"create", "create_error", "publish",
                                  "publish_error", "sent", "disconnect"}
        /\ \A j \in 1..Len(Prints) : Prints[j].site = SiteOfTurn(j).name
        /\ \A p \in 1..Len(trace) :
              trace[p].ev = "sleep" =>
                  EvCount("print", p) = NumSites * EvCount("sleep", p)
        /\ pc = "t_sleep" => Len(Prints) = NumSites * (cycle + 1)

\* C6 witness: two cycles completed in test mode
C6_Witness ==
    /\ test_mode
    /\ pc = "t_sleep"
    /\ cycle = 1
    /\ Len(Prints) = 2 * NumSites

\* C7: the loop leaves RUNNING for STOPPING only on an interrupt, and never
\* leaves STOPPING.
C7_OnlyInterruptStopsLoop ==
    [][/\ (LoopState = "RUNNING" /\ LoopState' = "STOPPING")
            => trace'[Len(trace')].ev = "interrupt"
       /\ LoopState = "STOPPING" => LoopState' = "STOPPING"]_vars

C9_OneSleepBetweenCycles ==
    \A p \in 1..Len(trace) : \A q \in (p + 1)..Len(trace) :
        (/\ IsDispatch(trace[p])
         /\ IsDispatch(trace[q])
         /\ \A m \in (p + 1)..(q - 1) : ~IsDispatch(trace[m]))
            => Cardinality({m \in (p + 1)..(q - 1) : trace[m].ev = "sleep"})
                 = IF /\ trace[p].site = Registry[NumSites].name
                      /\ trace[q].site = Registry[1].name
                   THEN 1 ELSE 0

\* C9 witness: a dispatch of the second cycle has followed the sleep
C9_Witness ==
    /\ \E p \in 1..Len(trace) : \E q \in (p + 1)..Len(trace) :
          trace[p].ev = "sleep" /\ IsDispatch(trace[q])
    /\ \E p \in 1..Len(trace) : \E q \in (p + 1)..Len(trace) :
          /\ IsDispatch(trace[p])
          /\ IsDispatch(trace[q])
          /\ trace[p].site # Registry[NumSites].name

\* C10: a reading returned by get_data has surfaceTemperature in [-20, 0],
\* externalTemperature in [-25, 0], iceThickness in [10, 50] and
\* snowAccumulation in [0, 15] (tenths: -200..0, -250..0, 100..500, 0..150),
\* and no location field.
C10_ReadingWithinBounds ==
    pc = "returned" =>
        /\ reading.surfaceTemperature \in -200..0
        /\ reading.externalTemperature \in -250..0
        /\ reading.iceThickness \in 100..500
        /\ reading.snowAccumulation \in 0..150
        /\ "location" \notin DOMAIN reading

\* C10 witness: draws half a tenth inside the ends of the ranges, rounded
\* onto the ends
C10_Witness ==
    /\ pc = "returned"
    /\ draws[1] = -1995
    /\ reading.surfaceTemperature = -200
    /\ draws[3] = 4995
    /\ reading.iceThickness = 500

====
